---- MODULE Spec2Model ----
(***************************************************************************)
(* Model of the pronunciation evaluation service of the ml-service:        *)
(*   app/services/pronunciation_service.py  (PronunciationService)         *)
(*                                                                         *)
(* Texts are sequences of one-character strings, word lists are sequences  *)
(* of such texts, Python indices are 0-based and are shifted by one where  *)
(* a TLA+ sequence is read.  Python floats are modelled by exact rational  *)
(* numbers [n, d] kept in lowest terms.                                    *)
(***************************************************************************)
EXTENDS Integers, Sequences, FiniteSets, TLC

(***************************************************************************)
(* Bounds of the model.                                                    *)
(***************************************************************************)
\* largest number of tokens in an expected text
MaxExp == 4
\* largest number of tokens in a transcript returned by the ASR model
MaxSpk == 4
\* largest number of words in a list given to _fluency_score on its own
MaxWords == 6
\* largest number of tokens in a text of a repeated evaluation
MaxRepeat == 2
\* largest number of entries in the progress list of a recommendation request
MaxProgress == 2
\* largest number of lessons of one request whose float score is not the exact
\* sum of its steps
MaxInexact == 1
MaxRate == 450
MaxTempFiles == 2
NumHandlers == 3
MaxInstances == 2

(***************************************************************************)
(* Generic helpers.                                                        *)
(***************************************************************************)
Max(a, b) == IF a >= b THEN a ELSE b

RECURSIVE GCD(_, _)
GCD(a, b) == IF b = 0 THEN a ELSE GCD(b, a % b)

\* all sequences over S of length 0..n
SeqsUpTo(S, n) == UNION {[1..k -> S] : k \in 0..n}

(***************************************************************************)
(* Rational numbers standing for the floats of the scoring arithmetic.     *)
(***************************************************************************)
Abs(x) == IF x < 0 THEN -x ELSE x
Rat(n, d) == LET g == GCD(Abs(n), d) IN [n |-> n \div g, d |-> d \div g]
RInt(k) == [n |-> k, d |-> 1]
RAdd(a, b) == Rat(a.n * b.d + b.n * a.d, a.d * b.d)
RMul(a, b) == Rat(a.n * b.n, a.d * b.d)
RDiv(a, b) == Rat(a.n * b.d, a.d * b.n)
RLe(a, b) == a.n * b.d <= b.n * a.d
RLt(a, b) == a.n * b.d < b.n * a.d
RMin(a, b) == IF RLe(a, b) THEN a ELSE b
RMax(a, b) == IF RLe(a, b) THEN b ELSE a

\* round(x, 1): the nearest multiple of 1/10, a tie going to the even one
Round1(x) ==
    LET t    == (10 * x.n) \div x.d
        rem2 == 2 * ((10 * x.n) % x.d)
        up   == rem2 > x.d \/ (rem2 = x.d /\ t % 2 = 1)
    IN  Rat(IF up THEN t + 1 ELSE t, 10)

(***************************************************************************)
(* Characters.                                                             *)
(***************************************************************************)
UpperCase == {"A", "S", "R"}
LowerCase == {"a", "b", "c", "d", "e", "i", "l", "n", "o", "p", "r", "s",
              "t", "u", "v", "x", "y"}
WhiteSpace == {" "}

\* str.lower() on one character
LowerChar(c) ==
    CASE c = "A" -> "a"
      [] c = "S" -> "s"
      [] c = "R" -> "r"
      [] OTHER   -> c

\* \w of the regular expressions: letters (digits and _ do not occur)
IsWordChar(c) == c \in LowerCase \cup UpperCase
IsSpace(c) == c \in WhiteSpace

(***************************************************************************)
(* _normalise and str.split / str.strip.                                   *)
(***************************************************************************)
lower(text) == [k \in DOMAIN text |-> LowerChar(text[k])]

\* re.sub(r"[^\w\s]", "", text)
StripPunctuation(text) == SelectSeq(text, LAMBDA c : IsWordChar(c) \/ IsSpace(c))

\* re.sub(r"\s+", " ", text): every run of whitespace becomes one space
RECURSIVE CollapseSpaces(_)
CollapseSpaces(text) ==
    IF text = <<>> THEN <<>>
    ELSE IF IsSpace(Head(text))
         THEN IF Len(text) > 1 /\ IsSpace(text[2])
              THEN CollapseSpaces(Tail(text))
              ELSE <<" ">> \o CollapseSpaces(Tail(text))
         ELSE <<Head(text)>> \o CollapseSpaces(Tail(text))

RECURSIVE LStrip(_)
LStrip(text) ==
    IF text # <<>> /\ IsSpace(Head(text)) THEN LStrip(Tail(text)) ELSE text

RECURSIVE RStrip(_)
RStrip(text) ==
    IF text # <<>> /\ IsSpace(text[Len(text)])
    THEN RStrip(SubSeq(text, 1, Len(text) - 1))
    ELSE text

\* str.strip()
strip(text) == RStrip(LStrip(text))

_normalise(text) == strip(CollapseSpaces(StripPunctuation(lower(text))))

\* str.split(): the maximal runs of non-whitespace characters, in order
RECURSIVE SplitFrom(_, _, _)
SplitFrom(text, k, word) ==
    IF k > Len(text)
    THEN IF word = <<>> THEN <<>> ELSE <<word>>
    ELSE IF IsSpace(text[k])
         THEN (IF word = <<>> THEN <<>> ELSE <<word>>) \o SplitFrom(text, k + 1, <<>>)
         ELSE SplitFrom(text, k + 1, Append(word, text[k]))

split(text) == SplitFrom(text, 1, <<>>)

(***************************************************************************)
(* difflib.SequenceMatcher(None, a, b) with no junk.  The autojunk         *)
(* heuristic only acts on sequences b of 200 elements or more.             *)
(***************************************************************************)
\* the length of the longest common run a[i:i+k] == b[j:j+k] that starts at
\* the 0-based positions i and j and stays below ahi and bhi
RECURSIVE MatchLen(_, _, _, _, _, _)
MatchLen(a, b, i, j, ahi, bhi) ==
    IF i < ahi /\ j < bhi /\ a[i + 1] = b[j + 1]
    THEN 1 + MatchLen(a, b, i + 1, j + 1, ahi, bhi)
    ELSE 0

SetMax(S) == CHOOSE x \in S : \A y \in S : y <= x

\* the block of length k > 0 among runs that starts earliest in a and, of
\* those, earliest in b
EarliestRun(runs, k) ==
    CHOOSE r \in runs :
        /\ r[3] = k
        /\ \A q \in runs :
              q[3] = k => (r[1] < q[1] \/ (r[1] = q[1] /\ r[2] <= q[2]))

LongestRun(runs, k, alo, blo) ==
    IF k = 0 THEN <<alo, blo, 0>> ELSE EarliestRun(runs, k)

BestRun(runs, alo, blo) ==
    LongestRun(runs, SetMax({r[3] : r \in runs} \cup {0}), alo, blo)

\* find_longest_match(alo, ahi, blo, bhi): the longest block; of those the one
\* starting earliest in a; of those the one starting earliest in b.
find_longest_match(a, b, alo, ahi, blo, bhi) ==
    BestRun({<<i, j, MatchLen(a, b, i, j, ahi, bhi)>> :
                i \in alo..(ahi - 1), j \in blo..(bhi - 1)},
            alo, blo)

\* the recursion of get_matching_blocks around the longest block m of the
\* range, its blocks in increasing order
RECURSIVE MatchRange(_, _, _, _, _, _)
MatchAround(a, b, alo, ahi, blo, bhi, m) ==
    IF m[3] = 0 THEN <<>>
    ELSE (IF alo < m[1] /\ blo < m[2]
          THEN MatchRange(a, b, alo, m[1], blo, m[2]) ELSE <<>>)
         \o <<m>>
         \o (IF m[1] + m[3] < ahi /\ m[2] + m[3] < bhi
             THEN MatchRange(a, b, m[1] + m[3], ahi, m[2] + m[3], bhi) ELSE <<>>)

MatchRange(a, b, alo, ahi, blo, bhi) ==
    MatchAround(a, b, alo, ahi, blo, bhi,
                find_longest_match(a, b, alo, ahi, blo, bhi))

\* adjacent blocks are collapsed into one
RECURSIVE MergeAdjacent(_, _)
MergeAdjacent(blocks, cur) ==
    IF blocks = <<>>
    THEN IF cur[3] > 0 THEN <<cur>> ELSE <<>>
    ELSE LET nx == Head(blocks)
         IN  IF cur[1] + cur[3] = nx[1] /\ cur[2] + cur[3] = nx[2]
             THEN MergeAdjacent(Tail(blocks), <<cur[1], cur[2], cur[3] + nx[3]>>)
             ELSE (IF cur[3] > 0 THEN <<cur>> ELSE <<>>)
                  \o MergeAdjacent(Tail(blocks), nx)

\* get_matching_blocks(): the blocks, then the sentinel (len(a), len(b), 0)
get_matching_blocks(a, b) ==
    MergeAdjacent(MatchRange(a, b, 0, Len(a), 0, Len(b)), <<0, 0, 0>>)
        \o <<<<Len(a), Len(b), 0>>>>

\* get_opcodes(): <<tag, i1, i2, j1, j2>> walking the matching blocks
RECURSIVE OpcodesFrom(_, _, _)
OpcodesFrom(blocks, i, j) ==
    IF blocks = <<>> THEN <<>>
    ELSE LET ai   == Head(blocks)[1]
             bj   == Head(blocks)[2]
             size == Head(blocks)[3]
             tag  == IF i < ai /\ j < bj THEN "replace"
                     ELSE IF i < ai THEN "delete"
                     ELSE IF j < bj THEN "insert"
                     ELSE ""
         IN  (IF tag # "" THEN <<<<tag, i, ai, j, bj>>>> ELSE <<>>)
             \o (IF size > 0 THEN <<<<"equal", ai, ai + size, bj, bj + size>>>> ELSE <<>>)
             \o OpcodesFrom(Tail(blocks), ai + size, bj + size)

\* variant of get_opcodes: inserted spoken words give no opcode
get_opcodes_without_insert(a, b) ==
    SelectSeq(OpcodesFrom(get_matching_blocks(a, b), 0, 0), LAMBDA op : op[1] # "insert")

get_opcodes(a, b) == OpcodesFrom(get_matching_blocks(a, b), 0, 0)

\* ratio(): 2.0 * matches / (len(a) + len(b)), 1.0 when both are empty
RECURSIVE SumSizes(_)
SumSizes(blocks) ==
    IF blocks = <<>> THEN 0 ELSE Head(blocks)[3] + SumSizes(Tail(blocks))

ratio(a, b) ==
    IF Len(a) + Len(b) = 0 THEN RInt(1)
    ELSE Rat(2 * SumSizes(get_matching_blocks(a, b)), Len(a) + Len(b))

(***************************************************************************)
(* Scoring: PronunciationService._score and its helpers.                   *)
(***************************************************************************)
\* a subscript read seq[i] of Python (i is never negative here): the element,
\* or an IndexError
Index(seq, i) ==
    IF 0 <= i /\ i < Len(seq)
    THEN [raised |-> FALSE, w |-> seq[i + 1]]
    ELSE [raised |-> TRUE, w |-> <<>>]

\* variant of spoken_w: the subscript read without its length test
spoken_w_unguarded(spoken_words, pos) == Index(spoken_words, pos)

\* spoken_words[j1 + k] if (j1 + k) < len(spoken_words) else ""
spoken_w(spoken_words, pos) ==
    IF pos < Len(spoken_words)
    THEN Index(spoken_words, pos)
    ELSE [raised |-> FALSE, w |-> <<>>]

\* the dict appended to word_errors
WordError(e, s, idx, ok) ==
    [word |-> e, expected |-> e, spoken |-> s, position |-> idx, is_correct |-> ok]

\* is_close = sim >= 0.6
SimThreshold == Rat(6, 10)

\* variant of is_close: the threshold itself is not close
is_close_above(sim) == RLt(SimThreshold, sim)

is_close(sim) == RLe(SimThreshold, sim)

\* The loops below carry acc = [word_errors, correct_count, raised].
\* tag == "equal": for idx in range(i1, i2)
RECURSIVE EqualLoop(_, _, _, _, _)
EqualLoop(acc, expected_words, spoken_words, op, idx) ==
    IF idx >= op[3] \/ acc.raised THEN acc
    ELSE LET e == Index(expected_words, idx)
             s == Index(spoken_words, op[4] + (idx - op[2]))
         IN  IF e.raised \/ s.raised THEN [acc EXCEPT !.raised = TRUE]
             ELSE EqualLoop(
                    [acc EXCEPT !.word_errors = Append(@, WordError(e.w, s.w, idx, TRUE))],
                    expected_words, spoken_words, op, idx + 1)

\* tag == "replace": for k, idx in enumerate(range(i1, i2))
RECURSIVE ReplaceLoop(_, _, _, _, _)
\* the body of the loop for the words e and s and their similarity sim
ReplaceWord(acc, e, s, idx, sim) ==
    [acc EXCEPT
       !.correct_count = IF is_close(sim) THEN RAdd(@, sim) ELSE @,
       !.word_errors = Append(@, WordError(e, s, idx, is_close(sim)))]

ReplaceRead(acc, expected_words, spoken_words, op, k, e, s) ==
    IF e.raised \/ s.raised THEN [acc EXCEPT !.raised = TRUE]
    ELSE ReplaceLoop(ReplaceWord(acc, e.w, s.w, op[2] + k, ratio(e.w, s.w)),
                     expected_words, spoken_words, op, k + 1)

ReplaceLoop(acc, expected_words, spoken_words, op, k) ==
    IF op[2] + k >= op[3] \/ acc.raised THEN acc
    ELSE ReplaceRead(acc, expected_words, spoken_words, op, k,
                     Index(expected_words, op[2] + k),
                     spoken_w(spoken_words, op[4] + k))

\* variant of DeleteLoop: deleted words are not reported
DeleteLoopSkips(acc, expected_words, op, idx) == acc

\* tag == "delete": for idx in range(i1, i2)
RECURSIVE DeleteLoop(_, _, _, _)
DeleteLoop(acc, expected_words, op, idx) ==
    IF idx >= op[3] \/ acc.raised THEN acc
    ELSE LET e == Index(expected_words, idx)
         IN  IF e.raised THEN [acc EXCEPT !.raised = TRUE]
             ELSE DeleteLoop(
                    [acc EXCEPT !.word_errors = Append(@, WordError(e.w, <<>>, idx, FALSE))],
                    expected_words, op, idx + 1)

\* one iteration of "for tag, i1, i2, j1, j2 in matcher.get_opcodes()"
OpStep(acc, expected_words, spoken_words, op) ==
    CASE op[1] = "equal" ->
            EqualLoop([acc EXCEPT !.correct_count = RAdd(@, RInt(op[3] - op[2]))],
                      expected_words, spoken_words, op, op[2])
      [] op[1] = "replace" -> ReplaceLoop(acc, expected_words, spoken_words, op, 0)
      [] op[1] = "delete"  -> DeleteLoop(acc, expected_words, op, op[2])
      [] OTHER -> acc

RECURSIVE WalkOpcodes(_, _, _, _)
WalkOpcodes(acc, expected_words, spoken_words, ops) ==
    IF ops = <<>> \/ acc.raised THEN acc
    ELSE WalkOpcodes(OpStep(acc, expected_words, spoken_words, Head(ops)),
                     expected_words, spoken_words, Tail(ops))

\* variant of _fluency_score: the lowest band when nothing is expected
_fluency_score_empty_low(spoken_words, expected_words) ==
    IF expected_words = <<>> THEN RInt(40)
    ELSE LET r == Rat(Len(spoken_words), Len(expected_words))
         IN  IF RLe(Rat(8, 10), r) /\ RLe(r, Rat(12, 10)) THEN RInt(100)
             ELSE IF RLe(Rat(5, 10), r) /\ RLe(r, Rat(15, 10)) THEN RInt(70)
             ELSE RInt(40)

\* variant of _fluency_score: the lowest band scores 20
_fluency_score_low_band_20(spoken_words, expected_words) ==
    IF expected_words = <<>> THEN RInt(100)
    ELSE LET r == Rat(Len(spoken_words), Len(expected_words))
         IN  IF RLe(Rat(8, 10), r) /\ RLe(r, Rat(12, 10)) THEN RInt(100)
             ELSE IF RLe(Rat(5, 10), r) /\ RLe(r, Rat(15, 10)) THEN RInt(70)
             ELSE RInt(20)

\* variant of _fluency_score: the bounds of the first band are exclusive
_fluency_score_open_band(spoken_words, expected_words) ==
    IF expected_words = <<>> THEN RInt(100)
    ELSE LET r == Rat(Len(spoken_words), Len(expected_words))
         IN  IF RLt(Rat(8, 10), r) /\ RLt(r, Rat(12, 10)) THEN RInt(100)
             ELSE IF RLe(Rat(5, 10), r) /\ RLe(r, Rat(15, 10)) THEN RInt(70)
             ELSE RInt(40)

\* _fluency_score(spoken_words, expected_words)
_fluency_score(spoken_words, expected_words) ==
    IF expected_words = <<>> THEN RInt(100)
    ELSE LET r == Rat(Len(spoken_words), Len(expected_words))
         IN  IF RLe(Rat(8, 10), r) /\ RLe(r, Rat(12, 10)) THEN RInt(100)
             ELSE IF RLe(Rat(5, 10), r) /\ RLe(r, Rat(15, 10)) THEN RInt(70)
             ELSE RInt(40)

\* variant of _feedback: the second tier starts at 70
_feedback_great_from_70(score) ==
    IF RLe(RInt(90), score) THEN "Excellent pronunciation! You sound very natural."
    ELSE IF RLe(RInt(70), score) THEN "Great job! Just a few words to polish - keep practising!"
    ELSE IF RLe(RInt(60), score) THEN "Good effort! Try listening to the slow version and repeating."
    ELSE IF RLe(RInt(40), score)
         THEN "You're making progress! Focus on the highlighted words and try again."
    ELSE "Keep going! Every attempt makes you better. Try saying it slowly first."

\* _feedback(score); the dash of the second message is U+2013 in the source
_feedback(score) ==
    IF RLe(RInt(90), score) THEN "Excellent pronunciation! You sound very natural."
    ELSE IF RLe(RInt(75), score) THEN "Great job! Just a few words to polish - keep practising!"
    ELSE IF RLe(RInt(60), score) THEN "Good effort! Try listening to the slow version and repeating."
    ELSE IF RLe(RInt(40), score)
         THEN "You're making progress! Focus on the highlighted words and try again."
    ELSE "Keep going! Every attempt makes you better. Try saying it slowly first."

\* variant of ClampRound: the rounding is left out
ClampOnly(v) == RMin(RMax(v, RInt(0)), RInt(100))

\* round(min(max(v, 0), 100), 1)
ClampRound(v) == Round1(RMin(RMax(v, RInt(0)), RInt(100)))

\* accuracy = (correct_count / max(total, 1)) * 100
Accuracy(correct_count, total) ==
    RMul(RDiv(correct_count, RInt(Max(total, 1))), RInt(100))

\* variant of Overall: fluency weighs 0.2
Overall_fluency_fifth(accuracy, fluency) ==
    RAdd(RMul(accuracy, Rat(7, 10)), RMul(fluency, Rat(2, 10)))

\* overall = accuracy * 0.7 + fluency * 0.3
Overall(accuracy, fluency) ==
    RAdd(RMul(accuracy, Rat(7, 10)), RMul(fluency, Rat(3, 10)))

\* the locals of _score after the loop over the opcodes
ScoreTotals(spoken_words, expected_words, opcodes, walk, accuracy, fluency) ==
    [raised         |-> walk.raised,
     spoken_words   |-> spoken_words,
     expected_words |-> expected_words,
     opcodes        |-> opcodes,
     word_errors    |-> walk.word_errors,
     correct_count  |-> walk.correct_count,
     accuracy       |-> accuracy,
     fluency        |-> fluency,
     overall        |-> Overall(accuracy, fluency)]

ScoreWalk(spoken_words, expected_words, opcodes, walk) ==
    ScoreTotals(spoken_words, expected_words, opcodes, walk,
                Accuracy(walk.correct_count, Len(expected_words)),
                _fluency_score(spoken_words, expected_words))

ScoreOpcodes(spoken_words, expected_words, opcodes) ==
    ScoreWalk(spoken_words, expected_words, opcodes,
              WalkOpcodes([word_errors |-> <<>>, correct_count |-> RInt(0), raised |-> FALSE],
                          expected_words, spoken_words, opcodes))

ScoreWords(spoken_words, expected_words) ==
    ScoreOpcodes(spoken_words, expected_words, get_opcodes(expected_words, spoken_words))

ScoreLocals(spoken, expected) ==
    ScoreWords(split(_normalise(spoken)), split(_normalise(expected)))

\* the dict _score returns from its locals l
ScoreReturn(l, spoken, expected) ==
    [overall_score  |-> ClampRound(l.overall),
     accuracy_score |-> ClampRound(l.accuracy),
     fluency_score  |-> ClampRound(l.fluency),
     word_errors    |-> l.word_errors,
     feedback       |-> _feedback(l.overall),
     spoken_text    |-> spoken,
     expected_text  |-> expected]

(***************************************************************************)
(* Inputs: texts built from a few raw tokens, and the placeholder.         *)
(***************************************************************************)
RawTokens == { <<"A", "b", "c", "d", "e", ",">>,
               <<" ", "a", "b", "c", "x", "y">>,
               <<"a", "b", "c", "d", "x", "y", "!">> }

\* the tokens separated by single spaces
RECURSIVE Join(_)
Join(tokens) ==
    IF tokens = <<>> THEN <<>>
    ELSE IF Len(tokens) = 1 THEN tokens[1]
    ELSE tokens[1] \o <<" ">> \o Join(Tail(tokens))

\* a text with no word in it
PunctuationOnly == <<",", " ", "!">>

ExpectedTexts == {Join(ts) : ts \in SeqsUpTo(RawTokens, MaxExp)} \cup {PunctuationOnly}
AsrTexts == {Join(ts) : ts \in SeqsUpTo(RawTokens, MaxSpk)} \cup {PunctuationOnly}

\* "[transcription unavailable - connect ASR service]"; EN_DASH stands for the
\* one character U+2013
Placeholder ==
    << "[", "t", "r", "a", "n", "s", "c", "r", "i", "p", "t", "i", "o", "n", " ",
       "u", "n", "a", "v", "a", "i", "l", "a", "b", "l", "e", " ", "EN_DASH", " ",
       "c", "o", "n", "n", "e", "c", "t", " ", "A", "S", "R", " ",
       "s", "e", "r", "v", "i", "c", "e", "]" >>

(***************************************************************************)
(* The service and one request handler at a time.                          *)
(***************************************************************************)
VARIABLES
    instance,       \* PronunciationService._instance: "None" or "Service"
    whisper_model,  \* self._whisper_model: "None" or "Loaded"
    pc,             \* the handler: "idle", "read", "evaluate", "done", "failed",
                    \* "replied"
    expected_text,  \* the request's expected_text
    content_type,   \* the request's audio.content_type
    frame,          \* the locals of the handler's call of _score
    result,         \* what evaluate returned
    error,          \* the exception raised inside the handler's try, or "none"
    response,       \* the handler's answer: a status with a body or a detail
    temp_files,     \* the names of the files in the temporary directory
    tmp_path        \* tmp_path of the handler's call of _transcribe_whisper, or 0

\* a call of _fluency_score on its own
VARIABLES
    fl_spoken_words,    \* its argument spoken_words
    fl_expected_words,  \* its argument expected_words
    fl_score            \* what it returned, or NoScore before the call

\* an observer of the results evaluate returns
VARIABLES
    first               \* the arguments and the result of a finished evaluation

\* the recommendation service and its handler
VARIABLES
    rec_instance,       \* RecommendationService._instance: "None" or "Service"
    rec_pc,             \* the handler: "idle", "called", "returned"
    rec_request,        \* the request: profile, progress, limit
    rec_result          \* what recommend returned

\* the text-to-speech service, its engine and its handler
VARIABLES
    tts_instance,       \* TTSService._instance: "None" or "Service"
    tts_engine,         \* self._engine: NoEngine, or the engine's properties
    tts_pc,             \* the handler: "idle", "called", "synthesize", "replied"
    tts_request,        \* the request: text, language, speed, voice
    tts_spoken,         \* the engine's properties when the request was spoken
    tts_response        \* the handler's answer

\* the application with its startup and several handlers of the
\* pronunciation route at a time, on one event loop
VARIABLES
    app_state,          \* lifespan: "startup", then "serving" after its yield
    cls_instance,       \* PronunciationService._instance: 0 for None, or an object
    services,           \* the PronunciationService objects constructed so far,
                        \* each by its _whisper_model
    handlers,           \* each handler: where it is and the service it got
    returned            \* the objects get_instance has returned so far

pron_vars ==
    <<instance, whisper_model, pc, expected_text, content_type, frame, result, error,
      response, temp_files, tmp_path>>
fluency_vars == <<fl_spoken_words, fl_expected_words, fl_score>>
repeat_vars == <<first>>
rec_vars == <<rec_instance, rec_pc, rec_request, rec_result>>
tts_vars ==
    <<tts_instance, tts_engine, tts_pc, tts_request, tts_spoken, tts_response>>

app_vars == <<app_state, cls_instance, services, handlers, returned>>

vars == <<pron_vars, fluency_vars, repeat_vars, rec_vars, tts_vars, app_vars>>

\* the variables outside the pronunciation handler
not_pron_vars == <<fluency_vars, repeat_vars, rec_vars, tts_vars, app_vars>>
\* the variables outside a call of _fluency_score on its own
not_fluency_vars == <<pron_vars, repeat_vars, rec_vars, tts_vars, app_vars>>
\* the variables outside the recommendation handler
not_rec_vars == <<pron_vars, fluency_vars, repeat_vars, tts_vars, app_vars>>
\* the variables outside the text-to-speech handler
not_tts_vars == <<pron_vars, fluency_vars, repeat_vars, rec_vars, app_vars>>
\* the variables outside the application with several handlers
not_app_vars == <<pron_vars, fluency_vars, repeat_vars, rec_vars, tts_vars>>

NoResult == [none |-> TRUE]
NoFrame == [none |-> TRUE]
NoScore == [none |-> TRUE]
NoResponse == [none |-> TRUE]
\* Python's None as a content type: a text of the one token None, which is no
\* character
NoContentType == <<"None">>

\* no call of _fluency_score on its own
FluencyAtRest ==
    /\ fl_spoken_words = <<>>
    /\ fl_expected_words = <<>>
    /\ fl_score = NoScore

\* the process has started and no request has come
PronAtRest ==
    /\ instance = "None"
    /\ whisper_model = "None"
    /\ pc = "idle"
    /\ expected_text = <<>>
    /\ content_type = NoContentType
    /\ frame = NoFrame
    /\ result = NoResult
    /\ error = "none"
    /\ response = NoResponse
    /\ temp_files = {}
    /\ tmp_path = 0

\* no evaluation was observed
RepeatAtRest == first = NoResult

NoRequest == [none |-> TRUE]

\* no recommendation was asked for
RecAtRest ==
    /\ rec_instance = "None"
    /\ rec_pc = "idle"
    /\ rec_request = NoRequest
    /\ rec_result = NoResult

NoEngine == [none |-> TRUE]
NoSpeech == [none |-> TRUE]

\* no speech was asked for
TtsAtRest ==
    /\ tts_instance = "None"
    /\ tts_engine = NoEngine
    /\ tts_pc = "idle"
    /\ tts_request = NoRequest
    /\ tts_spoken = NoSpeech
    /\ tts_response = NoResponse

Handlers == 1..NumHandlers

\* a handler that is not running
IdleHandler == [pc |-> "idle", service |-> 0]

\* the process was started and its lifespan has not run
AppAtRest ==
    /\ app_state = "startup"
    /\ cls_instance = 0
    /\ services = <<>>
    /\ handlers = [h \in Handlers |-> IdleHandler]
    /\ returned = {}

Init ==
    /\ PronAtRest
    /\ FluencyAtRest
    /\ RepeatAtRest
    /\ RecAtRest
    /\ TtsAtRest
    /\ AppAtRest

\* str.startswith(prefix)
startswith(text, prefix) ==
    Len(text) >= Len(prefix) /\ SubSeq(text, 1, Len(prefix)) = prefix

\* variant of IsAudioUpload: every upload passes
IsAudioUpload_any(c) == TRUE

\* the negation of line 67:
\* not audio.content_type or not audio.content_type.startswith("audio/")
IsAudioUpload(c) ==
    ~(c = NoContentType \/ c = <<>>)
    /\ startswith(c, <<"a", "u", "d", "i", "o", "/">>)

\* str(e) of the exceptions of the model
str(e) ==
    CASE e = "IndexError"      -> "list index out of range"
      [] e = "TranscribeError" -> "transcribe failed"
      [] e = "ReadError"       -> "read failed"
      [] e = "WriteError"      -> "File too large"
      [] OTHER                 -> ""

\* HTTPException(status_code=400, detail="Upload must be an audio file.")
BadUpload == [status |-> 400, detail |-> "Upload must be an audio file."]
\* HTTPException(status_code=500, detail=str(e))
InternalError(e) == [status |-> 500, detail |-> str(e)]
\* the result returned by the handler
Returned(r) == [status |-> 200, body |-> r]

\* a request comes: the handler tests the content type of the upload and
\* raises the 400 outside its try, or goes on to read the audio
evaluate_pronunciation(c, e) ==
    /\ pc = "idle"
    /\ content_type' = c
    /\ expected_text' = e
    /\ IF IsAudioUpload(c)
       THEN pc' = "read" /\ response' = response
       ELSE pc' = "replied" /\ response' = BadUpload
    /\ UNCHANGED <<instance, whisper_model, frame, result, error>>
    /\ UNCHANGED <<temp_files, tmp_path>>
    /\ UNCHANGED not_pron_vars

\* await audio.read() raises: the except clause answers 500
audio_read_raises ==
    /\ pc = "read"
    /\ pc' = "replied"
    /\ error' = "ReadError"
    /\ response' = InternalError("ReadError")
    /\ UNCHANGED <<instance, whisper_model, expected_text, content_type, frame, result>>
    /\ UNCHANGED <<temp_files, tmp_path>>
    /\ UNCHANGED not_pron_vars

\* the audio is read and get_instance() is called; the first call constructs
\* the service, and _try_load_whisper either loads the model or falls back
get_instance(loadOK) ==
    /\ pc = "read"
    /\ pc' = "evaluate"
    /\ IF instance = "None"
       THEN /\ instance' = "Service"
            /\ whisper_model' = IF loadOK THEN "Loaded" ELSE "None"
       ELSE UNCHANGED <<instance, whisper_model>>
    /\ UNCHANGED <<expected_text, content_type, frame, result, error, response>>
    /\ UNCHANGED <<temp_files, tmp_path>>
    /\ UNCHANGED not_pron_vars

\* _score ending evaluate with the locals l: it returns its dict, or an
\* IndexError leaves it
ScoreEnds(l, spoken) ==
    /\ frame' = l
    /\ IF l.raised
       THEN /\ pc' = "failed"
            /\ error' = "IndexError"
            /\ result' = NoResult
       ELSE /\ pc' = "done"
            /\ error' = "none"
            /\ result' = ScoreReturn(l, spoken, expected_text)

\* variant of _score: once an evaluation was observed, nothing is heard
_score_after_first(spoken) ==
    ScoreEnds(ScoreLocals(IF first = NoResult THEN spoken ELSE <<>>, expected_text), spoken)

\* _score(spoken, expected_text)
_score(spoken) == ScoreEnds(ScoreLocals(spoken, expected_text), spoken)

\* the name NamedTemporaryFile gives its file: one that no file has
NewTempName(files) == CHOOSE n \in 1..(Cardinality(files) + 1) : n \notin files

\* evaluate with the Whisper model: _transcribe_whisper makes its temporary
\* file and writes the audio into it, lines 87-89, before its try; a write
\* that raises leaves _transcribe_whisper there
_transcribe_whisper(writeOK) ==
    /\ pc = "evaluate"
    /\ whisper_model = "Loaded"
    /\ temp_files' = temp_files \cup {NewTempName(temp_files)}
    /\ IF writeOK
       THEN /\ tmp_path' = NewTempName(temp_files)
            /\ pc' = "transcribe"
            /\ UNCHANGED <<frame, result, error>>
       ELSE /\ Cardinality(temp_files) < MaxTempFiles
            /\ tmp_path' = 0
            /\ pc' = "failed"
            /\ error' = "WriteError"
            /\ result' = NoResult
            /\ frame' = NoFrame
    /\ UNCHANGED <<instance, whisper_model, expected_text, content_type, response>>
    /\ UNCHANGED not_pron_vars

\* the model's transcribe call returns: the finally clause unlinks the file
\* and _transcribe_whisper returns result.get("text", "").strip()
evaluate_whisper(text) ==
    /\ pc = "transcribe"
    /\ temp_files' = temp_files \ {tmp_path}
    /\ tmp_path' = 0
    /\ _score(strip(text))
    /\ UNCHANGED <<instance, whisper_model, expected_text, content_type, response>>
    /\ UNCHANGED not_pron_vars

\* the model's transcribe call raises: the finally clause unlinks the file
evaluate_whisper_raises ==
    /\ pc = "transcribe"
    /\ temp_files' = temp_files \ {tmp_path}
    /\ tmp_path' = 0
    /\ pc' = "failed"
    /\ error' = "TranscribeError"
    /\ result' = NoResult
    /\ frame' = NoFrame
    /\ UNCHANGED <<instance, whisper_model, expected_text, content_type, response>>
    /\ UNCHANGED not_pron_vars

\* evaluate without a model: _transcribe returns the placeholder
evaluate_fallback ==
    /\ pc = "evaluate"
    /\ whisper_model = "None"
    /\ _score(Placeholder)
    /\ UNCHANGED <<instance, whisper_model, expected_text, content_type, response>>
    /\ UNCHANGED <<temp_files, tmp_path>>
    /\ UNCHANGED not_pron_vars

\* the handler answers: it returns the result of evaluate, or its except
\* clause turns the exception into a 500
Respond ==
    /\ pc \in {"done", "failed"}
    /\ pc' = "replied"
    /\ response' = IF pc = "done" THEN Returned(result) ELSE InternalError(error)
    /\ UNCHANGED <<instance, whisper_model, expected_text, content_type, frame, result,
                   error>>
    /\ UNCHANGED <<temp_files, tmp_path>>
    /\ UNCHANGED not_pron_vars

\* the answer is sent and the handler's locals are gone; the singleton stays
request_ends ==
    /\ pc = "replied"
    /\ pc' = "idle"
    /\ expected_text' = <<>>
    /\ content_type' = NoContentType
    /\ frame' = NoFrame
    /\ result' = NoResult
    /\ error' = "none"
    /\ response' = NoResponse
    /\ UNCHANGED <<instance, whisper_model>>
    /\ UNCHANGED <<temp_files, tmp_path>>
    /\ UNCHANGED not_pron_vars

\* the content types of the uploads: none, empty, audio/wav, text/plain and
\* one that holds "audio/" after its first character
ContentTypes ==
    { NoContentType,
      <<>>,
      <<"a", "u", "d", "i", "o", "/", "w", "a", "v">>,
      <<"t", "e", "x", "t", "/", "p", "l", "a", "i", "n">>,
      <<"x", "a", "u", "d", "i", "o", "/">> }

Next ==
    \/ \E c \in ContentTypes, e \in ExpectedTexts : evaluate_pronunciation(c, e)
    \/ audio_read_raises
    \/ \E loadOK \in BOOLEAN : get_instance(loadOK)
    \/ \E writeOK \in BOOLEAN : _transcribe_whisper(writeOK)
    \/ \E text \in AsrTexts : evaluate_whisper(text)
    \/ evaluate_whisper_raises
    \/ evaluate_fallback
    \/ Respond
    \/ request_ends

Spec == Init /\ [][Next]_vars

TypeOK ==
    /\ instance \in {"None", "Service"}
    /\ whisper_model \in {"None", "Loaded"}
    /\ pc \in {"idle", "read", "evaluate", "transcribe", "done", "failed", "replied"}
    /\ error \in {"none", "ReadError", "WriteError", "TranscribeError", "IndexError"}
    /\ temp_files \subseteq 1..(MaxTempFiles + 1)
    /\ tmp_path \in {0} \cup temp_files
    /\ content_type \in ContentTypes

(***************************************************************************)
(* Repeated evaluations on the one service: the handler as above over      *)
(* short texts, and an observer that keeps one finished evaluation.        *)
(***************************************************************************)
RepeatTokens == { <<"A", "b", "c", "d", "e", ",">>, <<" ", "a", "b", "c", "x", "y">> }
RepeatTexts == {Join(ts) : ts \in SeqsUpTo(RepeatTokens, MaxRepeat)} \cup {PunctuationOnly}

\* the observer keeps the arguments of _score, its result and the service
remember ==
    /\ pc = "done"
    /\ first = NoResult
    /\ first' = [expected |-> expected_text,
                 spoken   |-> result.spoken_text,
                 result   |-> result,
                 service  |-> <<instance, whisper_model>>,
                 ended    |-> FALSE]
    /\ UNCHANGED <<pron_vars, fluency_vars, rec_vars, tts_vars, app_vars>>

\* the observer notes that the handler of the evaluation it keeps has ended
handler_ended ==
    /\ first # NoResult
    /\ ~first.ended
    /\ pc = "idle"
    /\ first' = [first EXCEPT !.ended = TRUE]
    /\ UNCHANGED <<pron_vars, fluency_vars, rec_vars, tts_vars, app_vars>>

NextRepeat ==
    \/ \E c \in ContentTypes, e \in RepeatTexts : evaluate_pronunciation(c, e)
    \/ audio_read_raises
    \/ \E loadOK \in BOOLEAN : get_instance(loadOK)
    \/ \E writeOK \in BOOLEAN : _transcribe_whisper(writeOK)
    \/ \E text \in RepeatTexts : evaluate_whisper(text)
    \/ evaluate_whisper_raises
    \/ evaluate_fallback
    \/ Respond
    \/ request_ends
    \/ remember
    \/ handler_ended

SpecRepeat == Init /\ [][NextRepeat]_vars

(***************************************************************************)
(* The recommendation service: app/services/recommendation_service.py.     *)
(* A score is kept in hundredths, which its decimal steps make it exactly; *)
(* the float the code sorts by may differ from it in its last bit, and a   *)
(* request leaves open for which lessons it does (inexact: -1 for a float  *)
(* below the exact sum, 1 for one above).                                  *)
(***************************************************************************)
\* LESSON_CATALOGUE without the titles, which recommend does not read
LESSON_CATALOGUE ==
    << [id |-> "lesson-1", language |-> "english", level |-> "beginner",
        skills |-> <<"vocabulary", "pronunciation">>, style |-> "auditory"],
       [id |-> "lesson-2", language |-> "english", level |-> "beginner",
        skills |-> <<"vocabulary", "reading">>, style |-> "visual"],
       [id |-> "lesson-3", language |-> "english", level |-> "beginner",
        skills |-> <<"vocabulary", "reading">>, style |-> "visual"],
       [id |-> "lesson-4", language |-> "english", level |-> "beginner",
        skills |-> <<"vocabulary", "listening">>, style |-> "auditory"],
       [id |-> "lesson-5", language |-> "english", level |-> "beginner",
        skills |-> <<"grammar", "vocabulary">>, style |-> "reading"],
       [id |-> "lesson-6", language |-> "english", level |-> "beginner",
        skills |-> <<"grammar", "writing">>, style |-> "reading"],
       [id |-> "lesson-7", language |-> "english", level |-> "intermediate",
        skills |-> <<"grammar", "pronunciation">>, style |-> "auditory"],
       [id |-> "lesson-8", language |-> "english", level |-> "intermediate",
        skills |-> <<"vocabulary", "writing">>, style |-> "visual"],
       [id |-> "lesson-9", language |-> "english", level |-> "intermediate",
        skills |-> <<"grammar">>, style |-> "reading"],
       [id |-> "lesson-10", language |-> "english", level |-> "intermediate",
        skills |-> <<"listening", "pronunciation">>, style |-> "kinesthetic"],
       [id |-> "lesson-11", language |-> "tamil", level |-> "beginner",
        skills |-> <<"reading", "writing">>, style |-> "visual"],
       [id |-> "lesson-12", language |-> "tamil", level |-> "beginner",
        skills |-> <<"reading", "writing">>, style |-> "visual"],
       [id |-> "lesson-13", language |-> "tamil", level |-> "beginner",
        skills |-> <<"vocabulary", "pronunciation">>, style |-> "auditory"],
       [id |-> "lesson-14", language |-> "tamil", level |-> "beginner",
        skills |-> <<"vocabulary", "reading">>, style |-> "visual"],
       [id |-> "lesson-15", language |-> "tamil", level |-> "beginner",
        skills |-> <<"vocabulary">>, style |-> "visual"],
       [id |-> "lesson-16", language |-> "tamil", level |-> "intermediate",
        skills |-> <<"grammar", "writing">>, style |-> "reading"] >>

\* str.lower() on the words of the requests
LowerWord(w) ==
    CASE w = "English"      -> "english"
      [] w = "TAMIL"        -> "tamil"
      [] w = "Intermediate" -> "intermediate"
      [] w = "Auditory"     -> "auditory"
      [] w = "Grammar"      -> "grammar"
      [] OTHER              -> w

ToSet(seq) == {seq[k] : k \in DOMAIN seq}

\* progress_map.get(lid) of progress_map = {p.lesson_id: p for p in progress}:
\* the last entry of the lesson, or NoRequest for None
RECURSIVE ProgressOf(_, _)
ProgressOf(progress, lid) ==
    IF progress = <<>> THEN NoRequest
    ELSE IF progress[Len(progress)].lesson_id = lid THEN progress[Len(progress)]
    ELSE ProgressOf(SubSeq(progress, 1, Len(progress) - 1), lid)

\* the status-based step of _score_lesson: <<hundredths, reasons>>
StatusStep(prog) ==
    IF prog = NoRequest \/ prog.status = "NOT_STARTED"
    THEN <<10, << <<"Not yet attempted">> >> >>
    ELSE IF prog.status = "IN_PROGRESS"
    THEN <<30, << <<"Continue where you left off">> >> >>
    ELSE IF prog.status = "COMPLETED"
    THEN IF prog.score # <<>> /\ prog.score[1] < 75
         THEN <<15, << <<"Practice to improve your score">> >> >>
         ELSE <<-40, << <<"Already completed well">> >> >>
    ELSE <<0, <<>> >>

LevelStep(lesson, profile) ==
    IF lesson.level = LowerWord(profile.level)
    THEN <<15, << <<"Matches your level">> >> >>
    ELSE <<-5, <<>> >>

StyleStep(lesson, profile) ==
    IF lesson.style = LowerWord(profile.learning_style)
    THEN <<10, << <<"Suits your ", profile.learning_style, " learning style">> >> >>
    ELSE <<0, <<>> >>

\* the skills of the lesson among the lower-cased words of the list
Overlap(lesson, words) ==
    ToSet(lesson.skills) \cap {LowerWord(words[k]) : k \in DOMAIN words}

ChallengeStep(lesson, profile) ==
    IF Overlap(lesson, profile.challenges) # {}
    THEN <<20, << <<"Helps with ", Overlap(lesson, profile.challenges)>> >> >>
    ELSE <<0, <<>> >>

StrengthStep(lesson, profile) ==
    IF Overlap(lesson, profile.strengths) # {} /\ Overlap(lesson, profile.challenges) = {}
    THEN -5
    ELSE 0

\* max(0, min(1, score)) in hundredths
Clamp01(h) == IF h < 0 THEN 0 ELSE IF h > 100 THEN 100 ELSE h

\* _score_lesson from its steps: the score in hundredths and the first reason
ScoreOfSteps(st, lv, sy, ch, sg) ==
    [h      |-> Clamp01(50 + st[1] + lv[1] + sy[1] + ch[1] + sg),
     reason |-> IF st[2] \o lv[2] \o sy[2] \o ch[2] = <<>>
                THEN <<"Recommended for you">>
                ELSE Head(st[2] \o lv[2] \o sy[2] \o ch[2])]

_score_lesson(lesson, prog, profile) ==
    ScoreOfSteps(StatusStep(prog), LevelStep(lesson, profile), StyleStep(lesson, profile),
                 ChallengeStep(lesson, profile), StrengthStep(lesson, profile))

\* the last bit of the float score of the lesson lid
InexactOf(inexact, lid) == IF lid \in DOMAIN inexact THEN inexact[lid] ELSE 0

\* the dict appended to scored; _raw_score is the pair <<hundredths, last bit>>
\* and round(score, 3) is the hundredths
ScoredItem(lid, sc, bit) ==
    [lesson_id |-> lid, score |-> Rat(sc.h, 100), reason |-> sc.reason,
     _raw_score |-> <<sc.h, bit>>]

\* x["_raw_score"] >= y["_raw_score"]
RawGE(x, y) ==
    \/ x._raw_score[1] > y._raw_score[1]
    \/ x._raw_score[1] = y._raw_score[1] /\ x._raw_score[2] >= y._raw_score[2]

\* one item put into a list sorted downwards, behind the items that are not
\* below it
RECURSIVE InsertDesc(_, _)
InsertDesc(sorted, x) ==
    IF sorted = <<>> THEN <<x>>
    ELSE IF RawGE(Head(sorted), x) THEN <<Head(sorted)>> \o InsertDesc(Tail(sorted), x)
    ELSE <<x>> \o sorted

\* variant of SortDesc: the list is left as it is
SortDesc_none(scored) == scored

\* scored.sort(key=lambda x: x["_raw_score"], reverse=True): a stable sort
RECURSIVE SortDesc(_)
SortDesc(scored) ==
    IF scored = <<>> THEN <<>>
    ELSE InsertDesc(SortDesc(SubSeq(scored, 1, Len(scored) - 1)), scored[Len(scored)])

\* seq[:limit]
SliceTo(seq, limit) ==
    IF limit >= 0
    THEN SubSeq(seq, 1, IF limit < Len(seq) THEN limit ELSE Len(seq))
    ELSE SubSeq(seq, 1, Len(seq) + limit)

\* the candidates of the profile: the lessons of its lower-cased language
Candidates(profile) ==
    SelectSeq(LESSON_CATALOGUE, LAMBDA l : l.language = LowerWord(profile.language))

\* the list scored before it is sorted
Scored(candidates, req, inexact) ==
    [k \in DOMAIN candidates |->
        ScoredItem(candidates[k].id,
                   _score_lesson(candidates[k],
                                 ProgressOf(req.progress, candidates[k].id),
                                 req.profile),
                   InexactOf(inexact, candidates[k].id))]

\* the recommendations of the first items of the sorted list
Recommendations(top) ==
    [i \in DOMAIN top |->
        [lesson_id |-> top[i].lesson_id, score |-> top[i].score,
         reason |-> top[i].reason, priority |-> i]]

\* the f-string of the strategy
Strategy(profile) ==
    <<"Rule-based: ", profile.language, " ", profile.level, ", style=",
      profile.learning_style, ", ", Len(profile.challenges), " challenge area(s)">>

\* recommend(profile, progress, limit)
recommend_result(req, inexact) ==
    [recommendations |->
        Recommendations(SliceTo(SortDesc(Scored(Candidates(req.profile), req, inexact)),
                                req.limit)),
     strategy |-> Strategy(req.profile)]

\* the requests of the model
Profiles ==
    [language       : {"english", "English", "tamil", "french"},
     level          : {"beginner", "Intermediate"},
     learning_style : {"visual", "Auditory"},
     strengths      : {<<>>, <<"reading">>},
     challenges     : {<<>>, <<"Grammar", "vocabulary">>}]

ProgressEntries ==
    { [lesson_id |-> "lesson-1", status |-> "IN_PROGRESS", score |-> <<>>],
      [lesson_id |-> "lesson-1", status |-> "COMPLETED", score |-> <<90>>],
      [lesson_id |-> "lesson-2", status |-> "COMPLETED", score |-> <<60>>],
      [lesson_id |-> "lesson-13", status |-> "PAUSED", score |-> <<>>] }

Limits == {-1, 0, 5, 20}

\* the lessons whose float score is inexact, with the last bit of each
InexactChoices(profile) ==
    UNION { [S -> {-1, 1}] :
              S \in {T \in SUBSET {Candidates(profile)[k].id : k \in DOMAIN Candidates(profile)} :
                        Cardinality(T) <= MaxInexact} }

\* POST /recommend-lessons: the handler calls get_instance()
recommend_lessons(profile, progress, limit) ==
    /\ rec_pc = "idle"
    /\ rec_pc' = "called"
    /\ rec_instance' = "Service"
    /\ rec_request' = [profile |-> profile, progress |-> progress, limit |-> limit]
    /\ UNCHANGED rec_result
    /\ UNCHANGED not_rec_vars

\* service.recommend(...) returns
recommend ==
    /\ rec_pc = "called"
    /\ rec_pc' = "returned"
    /\ \E inexact \in InexactChoices(rec_request.profile) :
          rec_result' = recommend_result(rec_request, inexact)
    /\ UNCHANGED <<rec_instance, rec_request>>
    /\ UNCHANGED not_rec_vars

\* the handler returns the result and ends; the singleton stays
recommend_ends ==
    /\ rec_pc = "returned"
    /\ rec_pc' = "idle"
    /\ rec_request' = NoRequest
    /\ rec_result' = NoResult
    /\ UNCHANGED rec_instance
    /\ UNCHANGED not_rec_vars

NextRec ==
    \/ \E profile \in Profiles, progress \in SeqsUpTo(ProgressEntries, MaxProgress),
          limit \in Limits : recommend_lessons(profile, progress, limit)
    \/ recommend
    \/ recommend_ends

SpecRec == Init /\ [][NextRec]_vars

(***************************************************************************)
(* _fluency_score on its own: the two word lists are drawn at the start    *)
(* and one call applies it.                                                *)
(***************************************************************************)
FluencyWords == {<<"a">>, <<"b">>}
WordLists == SeqsUpTo(FluencyWords, MaxWords)

InitFluency ==
    /\ PronAtRest
    /\ RepeatAtRest
    /\ RecAtRest
    /\ TtsAtRest
    /\ AppAtRest
    /\ fl_spoken_words \in WordLists
    /\ fl_expected_words \in WordLists
    /\ fl_score = NoScore

fluency_call ==
    /\ fl_score = NoScore
    /\ fl_score' = _fluency_score(fl_spoken_words, fl_expected_words)
    /\ UNCHANGED <<fl_spoken_words, fl_expected_words>>
    /\ UNCHANGED not_fluency_vars

NextFluency == fluency_call

SpecFluency == InitFluency /\ [][NextFluency]_vars

(***************************************************************************)
(* Text to speech: the one TTSService, its pyttsx3 engine, and one         *)
(* handler of POST /tts/speak at a time.  The engine keeps its properties  *)
(* rate and voice from one call to the next.                               *)
(***************************************************************************)
\* the rate and the voice of a pyttsx3 engine after pyttsx3.init()
DefaultRate == 200
DefaultVoice == <<"d", "e", "f", "a", "u", "l", "t">>

\* the ids of the engine's voices, getProperty("voices"), in order
EngineVoices ==
    << DefaultVoice,
       <<"r", "o", "a", "/", "e", "s">>,
       <<"e", "n", "_", "u", "s">> >>

\* the engine pyttsx3.init() returns
NewEngine == [rate |-> DefaultRate, voice |-> DefaultVoice]

\* Python's None as the voice of a request
NoVoice == <<"None">>

\* int(x) of a number: truncation towards zero
IntOf(x) == IF x.n >= 0 THEN x.n \div x.d ELSE -((-x.n) \div x.d)

\* str.replace("-", "_")
replace_dash(text) == [k \in DOMAIN text |-> IF text[k] = "-" THEN "_" ELSE text[k]]

\* str.split("-")[0]: the characters before the first "-"
RECURSIVE split_dash_first(_)
split_dash_first(text) ==
    IF text = <<>> \/ Head(text) = "-" THEN <<>>
    ELSE <<Head(text)>> \o split_dash_first(Tail(text))

\* sub in text, on strings
Contains(sub, text) ==
    \E k \in 0..(Len(text) - Len(sub)) : SubSeq(text, k + 1, k + Len(sub)) = sub

\* the test of line 91 on one voice id
VoiceMatches(language, id) ==
    \/ Contains(replace_dash(lower(language)), lower(id))
    \/ Contains(split_dash_first(language), lower(id))

\* the voice after the loop of lines 90-93: the first voice that matches, or
\* the voice the engine had
VoiceForLanguage(language, current) ==
    LET hits == {k \in DOMAIN EngineVoices : VoiceMatches(language, EngineVoices[k])}
    IN  IF hits = {} THEN current
        ELSE EngineVoices[CHOOSE k \in hits : \A h \in hits : k <= h]

\* lines 95-96: a voice named by the request replaces it
VoiceForRequest(req, current) ==
    IF req.voice # NoVoice /\ req.voice # <<>>
    THEN req.voice
    ELSE VoiceForLanguage(req.language, current)

\* lines 84-85: the rate read from the engine, times speed, written back
RateForRequest(req, engine) == IntOf(RMul(RInt(engine.rate), req.speed))

\* the engine's properties after lines 84-96
Configured(req, engine) ==
    [rate  |-> RateForRequest(req, engine),
     voice |-> VoiceForRequest(req, engine.voice)]

\* HTTPException(status_code=400, detail="Text must not be empty.")
EmptyText == [status |-> 400, detail |-> "Text must not be empty."]
\* HTTPException(status_code=500, detail=str(e)) of a synthesis that raised
SynthesisError == [status |-> 500, detail |-> "synthesis failed"]
\* StreamingResponse of the audio bytes
Audio(bytes) == [status |-> 200, media_type |-> "audio/wav", body |-> bytes]

\* a request comes: the handler refuses a blank text outside its try
synthesize_speech(req) ==
    /\ tts_pc = "idle"
    /\ tts_request' = req
    /\ IF strip(req.text) = <<>>
       THEN /\ tts_response' = EmptyText
            /\ tts_pc' = "replied"
       ELSE /\ tts_response' = NoResponse
            /\ tts_pc' = "called"
    /\ UNCHANGED <<tts_instance, tts_engine, tts_spoken>>
    /\ UNCHANGED not_tts_vars

\* TTSService.get_instance(): the first call makes the service, which loads
\* the engine or, when pyttsx3 is not available, keeps None
tts_get_instance(loadOK) ==
    /\ tts_pc = "called"
    /\ IF tts_instance = "None"
       THEN /\ tts_instance' = "Service"
            /\ tts_engine' = IF loadOK THEN NewEngine ELSE NoEngine
       ELSE UNCHANGED <<tts_instance, tts_engine>>
    /\ tts_pc' = "synthesize"
    /\ UNCHANGED <<tts_request, tts_spoken, tts_response>>
    /\ UNCHANGED not_tts_vars

\* synthesize with an engine: _synthesize_pyttsx3 sets the rate and the voice
\* of the engine, then speaks the text into a file and returns its bytes, or
\* save_to_file / runAndWait raises and the handler answers 500
_synthesize_pyttsx3(ok) ==
    /\ tts_pc = "synthesize"
    /\ tts_engine # NoEngine
    /\ RateForRequest(tts_request, tts_engine) <= MaxRate
    /\ tts_engine' = Configured(tts_request, tts_engine)
    /\ IF ok
       THEN /\ tts_spoken' = Configured(tts_request, tts_engine)
            /\ tts_response' = Audio("speech")
       ELSE /\ tts_spoken' = NoSpeech
            /\ tts_response' = SynthesisError
    /\ tts_pc' = "replied"
    /\ UNCHANGED <<tts_instance, tts_request>>
    /\ UNCHANGED not_tts_vars

\* synthesize without an engine: one second of silence
_silent_wav ==
    /\ tts_pc = "synthesize"
    /\ tts_engine = NoEngine
    /\ tts_response' = Audio("silence")
    /\ tts_pc' = "replied"
    /\ UNCHANGED <<tts_instance, tts_engine, tts_request, tts_spoken>>
    /\ UNCHANGED not_tts_vars

\* the response is sent and the handler is over; the service and its engine
\* stay as they are
tts_request_ends ==
    /\ tts_pc = "replied"
    /\ tts_pc' = "idle"
    /\ tts_request' = NoRequest
    /\ tts_spoken' = NoSpeech
    /\ tts_response' = NoResponse
    /\ UNCHANGED <<tts_instance, tts_engine>>
    /\ UNCHANGED not_tts_vars

\* the requests of the model: speed 0.5 = slow, 1.0 = normal, 1.5 = fast
TtsTexts == { <<>>, <<" ">>, <<"a", "b">> }
TtsLanguages == { <<"e", "n", "-", "u", "s">>, <<"e", "s", "-", "A", "R">>, <<"x", "x">> }
TtsSpeeds == { Rat(1, 2), RInt(1), Rat(3, 2) }
TtsVoices == { NoVoice, <<>>, <<"x">> }
TtsRequests ==
    [text : TtsTexts, language : TtsLanguages, speed : TtsSpeeds, voice : TtsVoices]

NextTTS ==
    \/ \E req \in TtsRequests : synthesize_speech(req)
    \/ \E loadOK \in BOOLEAN : tts_get_instance(loadOK)
    \/ \E ok \in BOOLEAN : _synthesize_pyttsx3(ok)
    \/ _silent_wav
    \/ tts_request_ends

SpecTTS == Init /\ [][NextTTS]_vars

(***************************************************************************)
(* The singleton under concurrent handlers.  The handlers are coroutines   *)
(* of one event loop: one runs until its next await that suspends, which   *)
(* in evaluate_pronunciation is await audio.read() only.  get_instance,    *)
(* __init__ and _try_load_whisper hold no await, and evaluate awaits       *)
(* nothing that suspends.                                                  *)
(***************************************************************************)
\* variant of GetInstance: no test of cls._instance, every call constructs
GetInstance_unchecked(inst, objects, loadOK) ==
    [instance |-> Len(objects) + 1,
     objects  |-> Append(objects, IF loadOK THEN "Loaded" ELSE "None")]

\* get_instance(): cls._instance and the objects after the call; the object
\* it returns is cls._instance.  The first call constructs the service, whose
\* __init__ loads the Whisper model or keeps None
GetInstance(inst, objects, loadOK) ==
    IF inst = 0
    THEN [instance |-> Len(objects) + 1,
          objects  |-> Append(objects, IF loadOK THEN "Loaded" ELSE "None")]
    ELSE [instance |-> inst, objects |-> objects]

\* a call of get_instance by the running coroutine
CallGetInstance(loadOK) ==
    LET g == GetInstance(cls_instance, services, loadOK)
    IN  /\ Len(g.objects) <= MaxInstances
        /\ cls_instance' = g.instance
        /\ services' = g.objects
        /\ returned' = returned \cup {g.instance}

\* lifespan up to its yield: with PRELOAD_MODELS=true it calls get_instance
lifespan(preload, loadOK) ==
    /\ app_state = "startup"
    /\ app_state' = "serving"
    /\ IF preload
       THEN CallGetInstance(loadOK)
       ELSE UNCHANGED <<cls_instance, services, returned>>
    /\ UNCHANGED handlers
    /\ UNCHANGED not_app_vars

\* a request comes to a handler that is free: an upload that is no audio is
\* answered 400, any other handler suspends at await audio.read()
handler_starts(h, audio) ==
    /\ app_state = "serving"
    /\ handlers[h].pc = "idle"
    /\ handlers' = [handlers EXCEPT ![h].pc = IF audio THEN "read" ELSE "replied"]
    /\ UNCHANGED <<app_state, cls_instance, services, returned>>
    /\ UNCHANGED not_app_vars

\* audio.read() returns and the handler runs to its end without suspending:
\* get_instance(), evaluate, and the answer
handler_resumes(h, loadOK) ==
    /\ handlers[h].pc = "read"
    /\ CallGetInstance(loadOK)
    /\ handlers' = [handlers EXCEPT ![h] = [pc |-> "replied", service |-> cls_instance']]
    /\ UNCHANGED app_state
    /\ UNCHANGED not_app_vars

\* audio.read() raises and the handler answers 500 without get_instance
handler_read_raises(h) ==
    /\ handlers[h].pc = "read"
    /\ handlers' = [handlers EXCEPT ![h].pc = "replied"]
    /\ UNCHANGED <<app_state, cls_instance, services, returned>>
    /\ UNCHANGED not_app_vars

\* the answer is sent and the handler is free for the next request
handler_ends(h) ==
    /\ handlers[h].pc = "replied"
    /\ handlers' = [handlers EXCEPT ![h] = IdleHandler]
    /\ UNCHANGED <<app_state, cls_instance, services, returned>>
    /\ UNCHANGED not_app_vars

NextApp ==
    \/ \E preload \in BOOLEAN, loadOK \in BOOLEAN : lifespan(preload, loadOK)
    \/ \E h \in Handlers, audio \in BOOLEAN : handler_starts(h, audio)
    \/ \E h \in Handlers, loadOK \in BOOLEAN : handler_resumes(h, loadOK)
    \/ \E h \in Handlers : handler_read_raises(h)
    \/ \E h \in Handlers : handler_ends(h)

SpecApp == Init /\ [][NextApp]_vars

(***************************************************************************)
(* Properties.  They are stated on the result of a finished evaluation     *)
(* and on the word lists of its two texts.                                 *)
(***************************************************************************)
Done == pc = "done"
ExpWords == frame.expected_words
SpkWords == frame.spoken_words
Ops == frame.opcodes
HasOp(tag) == \E n \in DOMAIN Ops : Ops[n][1] = tag

\* C1: the result has exactly one WordError per normalized expected word, and
\* their positions are 0, 1, ..., N-1 in this order, whatever the number of
\* extra spoken words.
C1_OneEntryPerExpectedWord ==
    Done => /\ Len(result.word_errors) = Len(ExpWords)
            /\ \A k \in DOMAIN result.word_errors :
                  result.word_errors[k].position = k - 1

\* C1 happens: a finished evaluation of two or more expected words whose
\* alignment holds inserted, deleted and equal words.
C1_Witness ==
    /\ Done
    /\ Len(ExpWords) >= 2
    /\ HasOp("insert") /\ HasOp("delete") /\ HasOp("equal")
    /\ Len(result.word_errors) = Len(ExpWords)

\* length of the longest common subsequence of a[1..i] and b[1..j]
RECURSIVE LCSLen(_, _, _, _)
LCSLen(a, b, i, j) ==
    IF i = 0 \/ j = 0 THEN 0
    ELSE IF a[i] = b[j] THEN 1 + LCSLen(a, b, i - 1, j - 1)
    ELSE Max(LCSLen(a, b, i - 1, j), LCSLen(a, b, i, j - 1))

\* number of expected words inside "equal" opcodes
RECURSIVE EqualWords(_)
EqualWords(ops) ==
    IF ops = <<>> THEN 0
    ELSE (IF Head(ops)[1] = "equal" THEN Head(ops)[3] - Head(ops)[2] ELSE 0)
         + EqualWords(Tail(ops))

\* C2: the aligner's edit script is minimal: the number of expected words in
\* "equal" opcodes is the length of the longest common subsequence of the
\* expected and the spoken words.
C2_MinimalEditScript ==
    Done => EqualWords(Ops) = LCSLen(ExpWords, SpkWords, Len(ExpWords), Len(SpkWords))

\* C3: in a "replace" opcode whose spoken range [j1, j2) is shorter than its
\* expected range, the expected word at offset k < j2 - j1 is paired with
\* the spoken word at the same offset, and every expected word at an offset
\* k >= j2 - j1 is paired with the empty string and is not correct.
C3_ReplacePairsWithinOp ==
    Done =>
      \A n \in DOMAIN Ops :
        LET op == Ops[n] IN
        (op[1] = "replace" /\ op[5] - op[4] < op[3] - op[2]) =>
          \A k \in 0..(op[3] - op[2] - 1) :
            LET we == result.word_errors[op[2] + k + 1]
            IN  IF k < op[5] - op[4]
                THEN we.spoken = SpkWords[op[4] + k + 1]
                ELSE we.spoken = <<>> /\ ~we.is_correct

\* the unrounded accuracy, fluency and overall score of the finished evaluation
Locals == frame

\* C4 as claimed: with no expected word, for any transcript, there is no
\* WordError, fluency_score is 100.0, accuracy_score is 0.0 and
\* overall_score is 0.0.
C4_EmptyExpectedOverallZero ==
    (Done /\ ExpWords = <<>>) =>
        /\ result.word_errors = <<>>
        /\ result.fluency_score = RInt(100)
        /\ result.accuracy_score = RInt(0)
        /\ result.overall_score = RInt(0)

\* C4 as amended: with no expected word, for any transcript, there is no
\* WordError, fluency_score is 100.0, accuracy_score is 0.0 and
\* overall_score is 30.0 (0.7 x 0 + 0.3 x 100).
C4_EmptyExpected ==
    (Done /\ ExpWords = <<>>) =>
        /\ result.word_errors = <<>>
        /\ result.fluency_score = RInt(100)
        /\ result.accuracy_score = RInt(0)
        /\ result.overall_score = RInt(30)

\* C4 happens: a text of punctuation only is expected and words were spoken.
C4_Witness ==
    /\ Done
    /\ expected_text # <<>>
    /\ ExpWords = <<>>
    /\ SpkWords # <<>>
    /\ result.overall_score = RInt(30)

\* the five-tier table of messages: 4 for >= 90, 3 for >= 75, 2 for >= 60,
\* 1 for >= 40, else 0
Tier(score) ==
    IF RLe(RInt(90), score) THEN 4
    ELSE IF RLe(RInt(75), score) THEN 3
    ELSE IF RLe(RInt(60), score) THEN 2
    ELSE IF RLe(RInt(40), score) THEN 1
    ELSE 0

TierMessage(t) ==
    CASE t = 4 -> "Excellent pronunciation! You sound very natural."
      [] t = 3 -> "Great job! Just a few words to polish - keep practising!"
      [] t = 2 -> "Good effort! Try listening to the slow version and repeating."
      [] t = 1 -> "You're making progress! Focus on the highlighted words and try again."
      [] OTHER -> "Keep going! Every attempt makes you better. Try saying it slowly first."

\* the overall score clamped to [0, 100] and not rounded
ClampedOverall == RMin(RMax(Locals.overall, RInt(0)), RInt(100))

\* C5 as claimed: the table gives the same message for the unrounded clamped
\* overall score and for the one-decimal overall_score of the result, and it
\* is the feedback of the result.
C5_FeedbackAgreesWithReportedScore ==
    Done => /\ TierMessage(Tier(ClampedOverall)) = TierMessage(Tier(result.overall_score))
            /\ result.feedback = TierMessage(Tier(result.overall_score))

\* C5 as amended: the feedback is the table's message for the unrounded
\* overall score; it is the message for the reported overall_score too, except
\* when the unrounded score is below a threshold (90, 75, 60, 40) by at most
\* 0.05: then the reported score is that threshold and the feedback is the
\* message of the tier just below it.
C5_FeedbackOfUnroundedScore ==
    Done =>
        /\ result.feedback = TierMessage(Tier(ClampedOverall))
        /\ \/ Tier(ClampedOverall) = Tier(result.overall_score)
           \/ /\ result.overall_score \in {RInt(90), RInt(75), RInt(60), RInt(40)}
              /\ RLt(ClampedOverall, result.overall_score)
              /\ RLe(result.overall_score, RAdd(ClampedOverall, Rat(5, 100)))
              /\ Tier(ClampedOverall) = Tier(result.overall_score) - 1

\* C5 happens: a result whose reported score is a threshold that the unrounded
\* score does not reach.
C5_Witness ==
    /\ Done
    /\ Tier(ClampedOverall) # Tier(result.overall_score)
    /\ result.feedback = TierMessage(Tier(ClampedOverall))

\* a is a subsequence of b, from positions i and j on
RECURSIVE IsSubseqFrom(_, _, _, _)
IsSubseqFrom(a, b, i, j) ==
    IF i > Len(a) THEN TRUE
    ELSE IF j > Len(b) THEN FALSE
    ELSE IF a[i] = b[j] THEN IsSubseqFrom(a, b, i + 1, j + 1)
    ELSE IsSubseqFrom(a, b, i, j + 1)

\* C6: when the expected words (one or more) are a subsequence of the spoken
\* words, every WordError is correct and accuracy_score is 100.0.
C6_ExtraWordsNotPenalised ==
    (Done /\ ExpWords # <<>> /\ IsSubseqFrom(ExpWords, SpkWords, 1, 1)) =>
        /\ \A k \in DOMAIN result.word_errors : result.word_errors[k].is_correct
        /\ result.accuracy_score = RInt(100)

\* b is a with the k words from 0-based position i on left out
OmitsRun(a, b, i, k) ==
    b = SubSeq(a, 1, i) \o SubSeq(a, i + k + 1, Len(a))

\* C7: when the spoken words are the N expected words with one run of k >= 1
\* words left out, exactly k WordErrors are not correct, each with an empty
\* spoken word, the other N - k are correct, and accuracy_score is
\* (N - k) / N x 100 to one decimal.
C7_DeletionCase ==
    Done =>
      LET N == Len(ExpWords)
          k == N - Len(SpkWords)
          wrong == {n \in DOMAIN result.word_errors : ~result.word_errors[n].is_correct}
      IN  (k >= 1 /\ \E i \in 0..(N - k) : OmitsRun(ExpWords, SpkWords, i, k)) =>
            /\ Cardinality(wrong) = k
            /\ \A n \in wrong : result.word_errors[n].spoken = <<>>
            /\ result.accuracy_score = Round1(Rat((N - k) * 100, N))

SevenFields ==
    {"overall_score", "accuracy_score", "fluency_score", "word_errors",
     "feedback", "spoken_text", "expected_text"}

\* C8: evaluate always returns a complete result: no failure of the ASR model,
\* at loading or at transcribing, leaves evaluate as an error; the placeholder
\* transcript is scored instead.
C8_EvaluateAlwaysReturns ==
    /\ error # "TranscribeError"
    /\ pc \in {"done", "failed"} => (pc = "done" /\ DOMAIN result = SevenFields)

\* x is a multiple of 0.1 in [0, 100]
OneDecimalScore(x) ==
    /\ RLe(RInt(0), x)
    /\ RLe(x, RInt(100))
    /\ (10 * x.n) % x.d = 0

\* C9: overall_score, accuracy_score and fluency_score are in [0, 100] and are
\* multiples of 0.1.
C9_ScoresInRangeOneDecimal ==
    Done => /\ OneDecimalScore(result.overall_score)
            /\ OneDecimalScore(result.accuracy_score)
            /\ OneDecimalScore(result.fluency_score)

\* C9 happens: scores that had to be rounded.
C9_Witness ==
    /\ Done
    /\ (10 * Locals.accuracy.n) % Locals.accuracy.d # 0
    /\ (10 * Locals.overall.n) % Locals.overall.d # 0
    /\ OneDecimalScore(result.accuracy_score)

\* C10: _score raises nothing: no subscript it reads is out of range, for empty
\* texts too, and its result has all seven fields.
C10_ScoreRaisesNothing ==
    /\ error # "IndexError"
    /\ Done => DOMAIN result = SevenFields

\* C10 happens: a "replace" opcode with more expected than spoken words that
\* reaches the end of the spoken words, where the read is guarded.
C10_Witness ==
    /\ Done
    /\ \E n \in DOMAIN Ops :
          /\ Ops[n][1] = "replace"
          /\ Ops[n][4] + (Ops[n][3] - Ops[n][2]) > Len(SpkWords)
    /\ DOMAIN result = SevenFields

\* C10 happens for empty texts: both texts are empty.
C10_WitnessBothEmpty ==
    /\ Done
    /\ expected_text = <<>>
    /\ result.spoken_text = <<>>
    /\ DOMAIN result = SevenFields

\* the opcodes chain: each starts where the one before it ended, in both
\* word lists, from (0, 0) to (n, m)
OpsCover(ops, n, m) ==
    IF ops = <<>> THEN n = 0 /\ m = 0
    ELSE /\ ops[1][2] = 0 /\ ops[1][4] = 0
         /\ ops[Len(ops)][3] = n /\ ops[Len(ops)][5] = m
         /\ \A k \in DOMAIN ops : ops[k][2] <= ops[k][3] /\ ops[k][4] <= ops[k][5]
         /\ \A k \in 1..(Len(ops) - 1) :
               ops[k + 1][2] = ops[k][3] /\ ops[k + 1][4] = ops[k][5]

\* the ranges of one opcode have the shape of its tag
OpShape(op, a, b) ==
    CASE op[1] = "equal" ->
            /\ op[3] - op[2] = op[5] - op[4]
            /\ op[3] > op[2]
            /\ \A k \in 0..(op[3] - op[2] - 1) : a[op[2] + k + 1] = b[op[4] + k + 1]
      [] op[1] = "replace" -> op[3] > op[2] /\ op[5] > op[4]
      [] op[1] = "delete"  -> op[3] > op[2] /\ op[5] = op[4]
      [] op[1] = "insert"  -> op[3] = op[2] /\ op[5] > op[4]
      [] OTHER -> FALSE

\* C11: the opcodes of every pair of word lists cover the expected words 0..N
\* and the spoken words 0..M once each and in order; every opcode has the
\* shape of its tag; no expected word gives only "insert" opcodes, no spoken
\* word only "delete" opcodes, and two empty lists give no opcode.
C11_OpcodesCoverBothLists ==
    Done =>
        /\ OpsCover(Ops, Len(ExpWords), Len(SpkWords))
        /\ \A n \in DOMAIN Ops : OpShape(Ops[n], ExpWords, SpkWords)
        /\ ExpWords = <<>> => \A n \in DOMAIN Ops : Ops[n][1] = "insert"
        /\ SpkWords = <<>> => \A n \in DOMAIN Ops : Ops[n][1] = "delete"
        /\ (ExpWords = <<>> /\ SpkWords = <<>>) => Ops = <<>>

\* C11 happens: an alignment that holds all four tags.
C11_Witness ==
    /\ Done
    /\ HasOp("equal") /\ HasOp("replace") /\ HasOp("delete") /\ HasOp("insert")
    /\ OpsCover(Ops, Len(ExpWords), Len(SpkWords))

\* C11 happens for the empty lists: an all-insert, an all-delete and an
\* empty list of opcodes.
C11_WitnessEmptyExpected ==
    Done /\ ExpWords = <<>> /\ SpkWords # <<>> /\ Ops = <<<<"insert", 0, 0, 0, Len(SpkWords)>>>>

\* the opcode that holds the expected word at the 0-based position idx
OpOf(ops, idx) == ops[CHOOSE n \in DOMAIN ops : ops[n][2] <= idx /\ idx < ops[n][3]]

\* the similarity of a WordError's expected word to its paired spoken word
PairSim(we) == ratio(we.expected, we.spoken)

\* the credit of one WordError by the tag of its opcode
Credit(we, tag) ==
    CASE tag = "equal" -> RInt(1)
      [] tag = "replace" -> IF RLe(Rat(6, 10), PairSim(we)) THEN PairSim(we) ELSE RInt(0)
      [] OTHER -> RInt(0)

RECURSIVE TotalCredit(_, _)
TotalCredit(word_errors, ops) ==
    IF word_errors = <<>> THEN RInt(0)
    ELSE RAdd(Credit(Head(word_errors), OpOf(ops, Head(word_errors).position)[1]),
              TotalCredit(Tail(word_errors), ops))

\* C12: a word of an "equal" opcode is correct with credit 1; a word of a
\* "replace" opcode is correct exactly when its similarity to its paired
\* spoken word is at least 0.6, with that similarity as credit, else it is not
\* correct with credit 0; a word of a "delete" opcode is not correct with
\* credit 0; accuracy_score is the total credit / max(N, 1) x 100 clamped to
\* [0, 100], to one decimal.
C12_ClassificationAndCredit ==
    Done =>
        /\ \A k \in DOMAIN result.word_errors :
              LET we  == result.word_errors[k]
                  tag == OpOf(Ops, we.position)[1]
              IN  CASE tag = "equal"   -> we.is_correct
                    [] tag = "replace" -> we.is_correct <=> RLe(Rat(6, 10), PairSim(we))
                    [] OTHER           -> tag = "delete" /\ ~we.is_correct
        /\ Locals.correct_count = TotalCredit(result.word_errors, Ops)
        /\ result.accuracy_score =
              Round1(RMin(RMax(RMul(RDiv(TotalCredit(result.word_errors, Ops),
                                         RInt(Max(Len(ExpWords), 1))),
                                    RInt(100)),
                               RInt(0)),
                          RInt(100)))

\* C12 happens: an alignment with an equal word, a deleted word and a
\* replaced word of similarity exactly 0.6, which is correct with credit 0.6.
C12_Witness ==
    /\ Done
    /\ HasOp("equal") /\ HasOp("delete")
    /\ \E k \in DOMAIN result.word_errors :
          LET we == result.word_errors[k]
          IN  /\ OpOf(Ops, we.position)[1] = "replace"
              /\ PairSim(we) = Rat(6, 10)
              /\ we.is_correct
    /\ Locals.correct_count = TotalCredit(result.word_errors, Ops)

\* C12 happens below the threshold: a replaced word paired with a non-empty
\* word of similarity above 0 and below 0.6, which is not correct.
C12_WitnessBelowThreshold ==
    /\ Done
    /\ \E k \in DOMAIN result.word_errors :
          LET we == result.word_errors[k]
          IN  /\ OpOf(Ops, we.position)[1] = "replace"
              /\ we.spoken # <<>>
              /\ RLt(RInt(0), PairSim(we))
              /\ ~we.is_correct

\* the band of M spoken words for N expected words, in whole numbers
Band(N, M) ==
    IF N = 0 THEN 100
    ELSE IF 8 * N <= 10 * M /\ 10 * M <= 12 * N THEN 100
    ELSE IF 5 * N <= 10 * M /\ 10 * M <= 15 * N THEN 70
    ELSE 40

\* C13: the fluency score of N expected and M spoken words is 100 when N = 0,
\* else 100 when 0.8 <= M/N <= 1.2, else 70 when 0.5 <= M/N <= 1.5, else 40:
\* it depends on the two counts only and the bounds of the bands are inclusive.
C13_FluencyBands ==
    fl_score # NoScore =>
        fl_score = RInt(Band(Len(fl_expected_words), Len(fl_spoken_words)))

\* C13 happens: 4 words spoken for 5 expected, a ratio of exactly 0.8, score 100.
C13_Witness ==
    /\ Len(fl_expected_words) = 5
    /\ Len(fl_spoken_words) = 4
    /\ fl_expected_words # fl_spoken_words \o <<fl_expected_words[5]>>
    /\ fl_score = RInt(100)

\* C13 happens at the upper bound: 6 words spoken for 5 expected, a ratio of
\* exactly 1.2, score 100.
C13_WitnessUpperBound ==
    /\ Len(fl_expected_words) = 5 /\ Len(fl_spoken_words) = 6 /\ fl_score = RInt(100)

\* C14: when the expected and the spoken words are the same non-empty list,
\* every WordError is correct with the expected word as its spoken word, the
\* three scores are 100.0 and the feedback is the message of the top tier.
C14_PerfectMatch ==
    (Done /\ ExpWords # <<>> /\ ExpWords = SpkWords) =>
        /\ \A k \in DOMAIN result.word_errors :
              /\ result.word_errors[k].is_correct
              /\ result.word_errors[k].spoken = ExpWords[k]
              /\ result.word_errors[k].expected = ExpWords[k]
        /\ Len(result.word_errors) = Len(ExpWords)
        /\ result.accuracy_score = RInt(100)
        /\ result.fluency_score = RInt(100)
        /\ result.overall_score = RInt(100)
        /\ result.feedback = "Excellent pronunciation! You sound very natural."

\* C14 happens: texts that differ as written and have the same three or more
\* words, not all alike, once normalised.
C14_Witness ==
    /\ Done
    /\ Len(ExpWords) >= 3
    /\ ExpWords = SpkWords
    /\ ExpWords[1] # ExpWords[2]
    /\ expected_text # result.spoken_text
    /\ result.overall_score = RInt(100)

AudioTypes == { <<"a", "u", "d", "i", "o", "/", "w", "a", "v">> }

\* C16: an upload whose content type is missing or does not start with
\* "audio/" is answered 400, and nothing was read, transcribed or scored for
\* it; an exception raised while reading, transcribing or scoring is answered
\* 500 with the exception's message as detail; otherwise the answer is the
\* result of the service.
C16_ErrorMapping ==
    /\ pc \in {"read", "evaluate", "done", "failed"} => content_type \in AudioTypes
    /\ pc = "replied" =>
          IF content_type \notin AudioTypes
          THEN /\ response = [status |-> 400, detail |-> "Upload must be an audio file."]
               /\ frame = NoFrame
               /\ result = NoResult
               /\ error = "none"
          ELSE IF error # "none"
          THEN /\ response.status = 500
               /\ response.detail = str(error)
               /\ result = NoResult
          ELSE /\ response.status = 200
               /\ response.body = result
               /\ DOMAIN result = SevenFields

\* C16 happens: a text/plain upload is answered 400 before the service exists.
C16_Witness ==
    /\ pc = "replied"
    /\ content_type = <<"t", "e", "x", "t", "/", "p", "l", "a", "i", "n">>
    /\ response.status = 400
    /\ instance = "None"

\* C16 happens for an exception: a failed transcription is answered 500.
C16_WitnessTranscribe500 ==
    /\ pc = "replied"
    /\ error = "TranscribeError"
    /\ response = [status |-> 500, detail |-> "transcribe failed"]

\* C16 happens for a result: an audio upload is answered with the result.
C16_WitnessResult ==
    /\ pc = "replied"
    /\ content_type \in AudioTypes
    /\ response.status = 200
    /\ response.body = result
    /\ expected_text # <<>>

\* the recommendations of the finished request
Recs == rec_result.recommendations

\* the lesson of the catalogue with the id lid
LessonOf(lid) ==
    LESSON_CATALOGUE[CHOOSE k \in DOMAIN LESSON_CATALOGUE : LESSON_CATALOGUE[k].id = lid]

\* C17: the recommendations are in non-increasing order of score, their
\* priorities are 1, 2, ..., k in this order, no lesson is there twice and
\* every lesson is of the profile's language (the words compared in lower
\* case).
C17_RankedRecommendations ==
    rec_pc = "returned" =>
        /\ \A i \in DOMAIN Recs : Recs[i].priority = i
        /\ \A i, j \in DOMAIN Recs : i < j => RLe(Recs[j].score, Recs[i].score)
        /\ \A i, j \in DOMAIN Recs : i # j => Recs[i].lesson_id # Recs[j].lesson_id
        /\ \A i \in DOMAIN Recs :
              LessonOf(Recs[i].lesson_id).language = LowerWord(rec_request.profile.language)

\* C17 happens: a request whose progress names a lesson twice, answered with
\* five recommendations with equal and with different scores.
C17_Witness ==
    /\ rec_pc = "returned"
    /\ Len(Recs) = 5
    /\ Len(rec_request.progress) = 2
    /\ rec_request.progress[1].lesson_id = rec_request.progress[2].lesson_id
    /\ Recs[1].score # Recs[5].score
    /\ \E i \in 1..4 : Recs[i].score = Recs[i + 1].score
    /\ \A i \in DOMAIN Recs : Recs[i].priority = i

\* number of WordErrors that have a spoken counterpart
RECURSIVE WithCounterpart(_)
WithCounterpart(word_errors) ==
    IF word_errors = <<>> THEN 0
    ELSE (IF Head(word_errors).spoken # <<>> THEN 1 ELSE 0)
         + WithCounterpart(Tail(word_errors))

\* C18: no spoken word is counted twice: the expected words that have a
\* spoken counterpart are no more than the M spoken words, and the correct
\* credit is no more than M.
C18_NoSpokenWordTwice ==
    Done =>
        /\ WithCounterpart(result.word_errors) <= Len(SpkWords)
        /\ RLe(Locals.correct_count, RInt(Len(SpkWords)))

\* C19: fluency_score is at least 40 for every input, so the overall score,
\* 0.7 x accuracy + 0.3 x fluency, is at least 12.0 before and after the clamp
\* and the rounding: the lower clamp at 0 is never reached.
C19_OverallFloor ==
    Done =>
        /\ RLe(RInt(40), result.fluency_score)
        /\ RLe(RInt(0), Locals.accuracy)
        /\ RLe(RInt(12), Locals.overall)
        /\ RLe(RInt(12), result.overall_score)

\* C19 happens: words are expected and none is spoken: the overall score is
\* the floor, 12.0.
C19_Witness ==
    /\ Done
    /\ ExpWords # <<>>
    /\ SpkWords = <<>>
    /\ result.accuracy_score = RInt(0)
    /\ result.fluency_score = RInt(40)
    /\ result.overall_score = RInt(12)

\* C20: the rate a request is spoken at is the engine's default rate times
\* the speed of that request alone, whatever the speeds of the requests
\* before it: a request of speed 1.0 is spoken at the default rate.
C20_RateIsDefaultTimesSpeed ==
    tts_spoken # NoSpeech =>
        tts_spoken.rate = IntOf(RMul(RInt(DefaultRate), tts_request.speed))

\* C21: _transcribe_whisper leaves no temporary file behind: whenever no call
\* of it is going on, after any sequence of transcriptions, no file it made
\* is left in the temporary directory.
C21_NoTempFileLeft ==
    pc # "transcribe" => temp_files = {}

\* C22: for every interleaving of the handlers and the startup pre-load, at
\* most one PronunciationService is ever constructed, so the Whisper model
\* is loaded at most once, and every call of get_instance returns the same
\* object, the one every handler holds.
C22_OneInstance ==
    /\ Len(services) <= 1
    /\ Cardinality({k \in DOMAIN services : services[k] = "Loaded"}) <= 1
    /\ Cardinality(returned) <= 1
    /\ cls_instance = Len(services)
    /\ \A h \in Handlers :
           handlers[h].service # 0 => handlers[h].service = cls_instance

\* C22 happens: two handlers that ran at the same time have both called
\* get_instance while a third is suspended at its read
C22_Witness ==
    \E h1, h2, h3 \in Handlers :
        /\ h1 # h2 /\ h1 # h3 /\ h2 # h3
        /\ handlers[h1].pc = "replied" /\ handlers[h1].service # 0
        /\ handlers[h2].pc = "replied" /\ handlers[h2].service # 0
        /\ handlers[h3].pc = "read"
        /\ returned # {}
====
